---- MODULE Spec2Model ----
(***************************************************************************)
(* A model of solve_route_with_aco (src/src/solvers/aco_solver.py): the    *)
(* distance oracle, the choice of the start index, the manual iteration    *)
(* loop of the show_progress path with its best-tour tracking and early    *)
(* stopping, the delegating solver.solve path, and the final closing of    *)
(* the tour and its mapping back to coordinates.                           *)
(*                                                                         *)
(* The ants themselves (pants.Colony / pants.Solver) are third-party code  *)
(* that is not part of the repository's sources.  Their walk is modelled   *)
(* as a nondeterministic choice among the tours an ant can construct,      *)
(* following the construction phase described in spec.md section 4.4;      *)
(* a probabilistic choice is modelled as a choice of any alternative.      *)
(***************************************************************************)
EXTENDS Integers, Sequences, FiniteSets, TLC

\* ------------------------------------------------------------------ bounds
MaxAnts == 2
MaxIterations == 5

\* float('inf'), as the oracle and the tracker use it
Inf == 1000000

\* ------------------------------------------------------------- arithmetic
Add(a, b) == IF a = Inf \/ b = Inf THEN Inf ELSE a + b

Min2(a, b) == IF a < b THEN a ELSE b

\* ------------------------------------------------------------------ graphs
\* A graph is [n |-> number of nodes, e |-> set of <<a, b, weight>>], nodes
\* being numbered 0..n-1 in the order graph.nodes() lists them.  Parallel
\* edges are triples with the same end points.
G0 == [n |-> 0, e |-> {}]
G1 == [n |-> 1, e |-> {}]
G2c == [n |-> 2, e |-> {<<0, 1, 3>>}]
G2d == [n |-> 2, e |-> {}]
G3tri == [n |-> 3, e |-> {<<0, 1, 1>>, <<1, 2, 2>>, <<0, 2, 2>>}]
G3path == [n |-> 3, e |-> {<<0, 1, 1>>, <<1, 2, 1>>, <<1, 2, 4>>}]
G3iso == [n |-> 3, e |-> {<<0, 1, 1>>}]
G4k == [n |-> 4, e |-> {<<0, 1, 1>>, <<1, 2, 1>>, <<2, 3, 1>>, <<0, 3, 1>>,
                        <<0, 2, 2>>, <<1, 3, 3>>}]
G4path == [n |-> 4, e |-> {<<0, 1, 1>>, <<1, 2, 1>>, <<2, 3, 1>>}]
G4two == [n |-> 4, e |-> {<<0, 1, 1>>, <<2, 3, 2>>}]

\* graph=None: no graph was passed; it has no nodes to ask for
NoGraph == [n |-> 0, e |-> {}, missing |-> TRUE]

Graphs == {NoGraph, G0, G1, G2c, G2d, G3tri, G3path, G3iso, G4k, G4path, G4two}

Nodes(g) == 0 .. (g.n - 1)

\* node_list = list(graph.nodes()); int_to_node[i] is the coordinate of index i
int_to_node(i) == <<50 + i, 19>>

EdgeWeightDirected(g, a, b) ==
    LET ws == {t[3] : t \in {t \in g.e : t[1] = a /\ t[2] = b}}
    IN IF ws = {} THEN Inf ELSE CHOOSE w \in ws : \A v \in ws : w <= v

\* the weight of the lightest edge between a and b, Inf when there is none
EdgeWeight(g, a, b) ==
    LET ws == {t[3] : t \in {t \in g.e : (t[1] = a /\ t[2] = b) \/ (t[1] = b /\ t[2] = a)}}
    IN IF ws = {} THEN Inf ELSE CHOOSE w \in ws : \A v \in ws : w <= v

\* Bellman-Ford: the length of the lightest walk from a to b of at most k edges
RECURSIVE WalkLength(_, _, _, _)
WalkLength(g, a, b, k) ==
    IF a = b THEN 0
    ELSE IF k = 0 THEN Inf
    ELSE LET via == {Add(WalkLength(g, a, c, k - 1), EdgeWeight(g, c, b)) : c \in Nodes(g) \ {b}}
             best == CHOOSE w \in via : \A v \in via : w <= v
         IN best

\* nx.shortest_path_length(graph, source, target, weight='weight'); Inf stands
\* for nx.NetworkXNoPath
shortest_path_length(g, a, b) == WalkLength(g, a, b, g.n - 1)

Connected(g) == \A a, b \in Nodes(g) : shortest_path_length(g, a, b) # Inf

\* ------------------------------------------------------- distance oracle
EmptyMemo == [p \in {} |-> 0]

\* the dictionary memo with the value length stored under the key p
Store(memo, p, length) ==
    [q \in DOMAIN memo \cup {p} |-> IF q = p THEN length ELSE memo[q]]

distance_callback_no_path_is_zero(g, memo, start_int, end_int) ==
    IF <<start_int, end_int>> \in DOMAIN memo
        THEN [ret |-> memo[<<start_int, end_int>>], memo |-> memo, computed |-> FALSE]
    ELSE IF <<end_int, start_int>> \in DOMAIN memo
        THEN [ret |-> memo[<<end_int, start_int>>], memo |-> memo, computed |-> FALSE]
    ELSE IF int_to_node(start_int) = int_to_node(end_int)
        THEN [ret |-> 0, memo |-> memo, computed |-> FALSE]
    ELSE LET length == WalkLength(g, start_int, end_int, g.n - 1)
         IN IF length = Inf
                THEN [ret |-> 0, memo |-> memo, computed |-> TRUE]
                ELSE [ret |-> length, computed |-> TRUE,
                      memo |-> Store(memo, <<start_int, end_int>>, length)]

\* distance_callback(start_int, end_int) with the dictionary memoized_distances
\* it closes over: the value returned, the dictionary afterwards, and whether
\* nx.shortest_path_length was called
distance_callback(g, memo, start_int, end_int) ==
    IF <<start_int, end_int>> \in DOMAIN memo
        THEN [ret |-> memo[<<start_int, end_int>>], memo |-> memo, computed |-> FALSE]
    ELSE IF <<end_int, start_int>> \in DOMAIN memo
        THEN [ret |-> memo[<<end_int, start_int>>], memo |-> memo, computed |-> FALSE]
    ELSE IF int_to_node(start_int) = int_to_node(end_int)
        THEN [ret |-> 0, memo |-> memo, computed |-> FALSE]
    ELSE LET length == shortest_path_length(g, start_int, end_int)
         IN IF length = Inf
                THEN [ret |-> Inf, memo |-> memo, computed |-> TRUE]
                ELSE [ret |-> length, computed |-> TRUE,
                      memo |-> Store(memo, <<start_int, end_int>>, length)]

\* the ordered pairs of distinct node indices, row by row
PairSeq(n) ==
    LET all == [k \in 1 .. (n * n) |-> <<(k - 1) \div n, (k - 1) % n>>]
        Distinct(p) == p[1] # p[2]
    IN SelectSeq(all, Distinct)

\* pants.World(list(range(num_nodes)), lfunc=distance_callback): the world
\* asks the oracle for the length of every edge between two distinct nodes
RECURSIVE QueryAll(_, _, _, _)
QueryAll(g, pairs, memo, lengths) ==
    IF pairs = <<>> THEN [memo |-> memo, lengths |-> lengths]
    ELSE LET p == Head(pairs)
             r == distance_callback(g, memo, p[1], p[2])
         IN QueryAll(g, Tail(pairs), r.memo,
                     [q \in DOMAIN lengths \cup {p} |-> IF q = p THEN r.ret ELSE lengths[q]])

create_world(g) == QueryAll(g, PairSeq(g.n), EmptyMemo, EmptyMemo)

WorldOf == [g \in Graphs |-> create_world(g)]

\* the length of the world's edge from a to b
Length(g, a, b) == IF a = b THEN 0 ELSE WorldOf[g].lengths[<<a, b>>]

\* ------------------------------------------------------------------- ants
\* the orders in which n nodes can be visited
Perms(n) == {p \in [1 .. n -> 0 .. (n - 1)] : \A x, y \in 1 .. n : x # y => p[x] # p[y]}

\* the total length of the closed walk along t: every transition, and the
\* return from the last node to the first
RECURSIVE PathLength(_, _)
PathLength(g, t) ==
    IF Len(t) <= 1 THEN 0
    ELSE Add(Length(g, t[1], t[2]), PathLength(g, Tail(t)))

TourDistance(g, t) ==
    IF Len(t) <= 1 THEN 0 ELSE Add(PathLength(g, t), Length(g, t[Len(t)], t[1]))

Visited(t, k) == {t[x] : x \in 1 .. k}

\* after k nodes of t, no unvisited node is reachable from the current one
Stuck(g, t, k) == \A u \in Nodes(g) \ Visited(t, k) : Length(g, t[k], u) = Inf

\* an ant moves to an unvisited node with probability proportional to
\* pheromone^alpha * (1/distance)^beta: an unreachable node is chosen only
\* when every unvisited node is unreachable
Walkable(g, t) ==
    \A k \in 1 .. (Len(t) - 1) : Length(g, t[k], t[k + 1]) # Inf \/ Stuck(g, t, k)

\* what one ant can report after make_tours: a complete tour with the sum of
\* its transition lengths, or, for an ant that has hit an unreachable
\* transition, the nodes visited so far with either an infinite distance or
\* the length of the walk it made
AntOutcomes(g) ==
    LET complete == {[tour |-> p, distance |-> TourDistance(g, p)] :
                        p \in {p \in Perms(g.n) : Walkable(g, p)}}
        partial == {SubSeq(p, 1, k) : p \in Perms(g.n), k \in 1 .. (g.n - 1)}
        halted == {t \in partial : PathLength(g, t) # Inf /\ Stuck(g, t, Len(t))}
    IN complete
       \cup {[tour |-> t, distance |-> Inf] : t \in halted}
       \cup {[tour |-> t, distance |-> TourDistance(g, t)] : t \in halted}

OutcomesOf == [g \in Graphs |-> IF g.n < 2 THEN {} ELSE AntOutcomes(g)]

\* ------------------------------------------------------------ solver state
\* One call of solve_route_with_aco is a record: its arguments, its local
\* variables under their names in the source, its position pc, and what it
\* has returned.  best_tour_indices = <<>> stands for None.  seen_min (the
\* least distance any ant has reported), min_tour (the tour of the first ant
\* that reported it), last_distance (the distance of the latest ant), competed
\* (the ants compared in the last finished iteration) and exit_reason record
\* the history of the call; invalid_start_reported records that the warning
\* "Invalid start_node_index ... Choosing randomly." has been printed.
VARIABLES run

vars == <<run>>

NoSolution == [tour |-> <<>>, distance |-> Inf]

Start(g, ants, iterations, given, index, progress) ==
    [graph |-> g, num_ants |-> ants, num_iterations |-> iterations,
     start_given |-> given, start_node_index |-> index, show_progress |-> progress,
     pc |-> "start", memoized_distances |-> EmptyMemo,
     effective_start_node_idx |-> -1, invalid_start_reported |-> FALSE,
     colony_size |-> 0,
     i |-> 0, ant |-> 0,
     best_tour_indices |-> <<>>, best_tour_distance |-> Inf, last_improvement |-> 0,
     solution |-> NoSolution,
     returned |-> "pending", optimized_route_coords |-> <<>>, total_distance |-> 0,
     seen_min |-> Inf, min_tour |-> <<>>, last_distance |-> Inf, competed |-> -1, exit_reason |-> "none"]

\* the calls the model explores; start_given = FALSE is start_node_index=None
Calls ==
    {Start(g, ants, iterations, given, index, progress) :
        g \in Graphs, ants \in 1 .. MaxAnts, iterations \in 1 .. MaxIterations,
        given \in BOOLEAN, index \in -1 .. 4, progress \in BOOLEAN}

\* a given start index is -1, the first index, the last index or N
StartStates ==
    {s \in Calls : IF s.start_given
                       THEN s.start_node_index \in {-1, 0, s.graph.n - 1, s.graph.n}
                       ELSE s.start_node_index = 0}

\* ------------------------------------------------------------------- setup
ChooseStartBelowN(s, r) ==
    IF ~s.start_given THEN r
    ELSE IF s.start_node_index < s.graph.n THEN s.start_node_index
    ELSE r

\* the start index: the given one when it is in range, else random.choice
ChooseStart(s, r) ==
    IF ~s.start_given THEN r
    ELSE IF 0 <= s.start_node_index /\ s.start_node_index < s.graph.n
        THEN s.start_node_index
    ELSE r

\* the else branch of lines 84-86: a start index was given and is not in
\* range, and the warning is printed
InvalidStart(s) ==
    /\ s.start_given
    /\ ~(0 <= s.start_node_index /\ s.start_node_index < s.graph.n)

\* the number of ants that build tours in each iteration: pants.Colony(world)
\* is created without an ant count and has the colony's own number of ants;
\* pants.Solver is given ant_count=num_ants
ColonySize(s, colony_ants) == IF s.show_progress THEN colony_ants ELSE s.num_ants

TooSmallOnlyWhenEmpty(g) == g = NoGraph \/ g.n = 0

\* if not graph or graph.number_of_nodes() < 2: a graph is false when it is
\* None or has no nodes
TooSmall(g) == (g = NoGraph \/ g.n = 0) \/ g.n < 2

\* from the call to the first iteration; r is the result of random.choice
Setup(s, r, colony_ants) ==
    IF TooSmall(s.graph)
        THEN [s EXCEPT !.pc = "done", !.returned = "None", !.exit_reason = "rejected"]
        ELSE [s EXCEPT !.pc = IF s.show_progress THEN "loop" ELSE "solve",
                       !.memoized_distances = WorldOf[s.graph].memo,
                       !.effective_start_node_idx = ChooseStart(s, r),
                       !.invalid_start_reported = InvalidStart(s),
                       !.colony_size = ColonySize(s, colony_ants)]

\* ---------------------------------------------------------- iteration loop
BetterOrEqual(distance, best) == distance <= best

\* if ant.distance < best_tour_distance
Better(distance, best) == distance < best

\* one ant of colony.get_ants() is compared with the best tour so far
AntCompetes(s, o) ==
    LET better == Better(o.distance, s.best_tour_distance)
    IN [s EXCEPT !.best_tour_distance = IF better THEN o.distance ELSE @,
                 !.best_tour_indices = IF better THEN o.tour ELSE @,
                 !.last_improvement = IF better THEN s.i ELSE @,
                 !.ant = @ + 1,
                 !.seen_min = Min2(@, o.distance),
                 !.min_tour = IF o.distance < s.seen_min THEN o.tour ELSE @,
                 !.last_distance = o.distance]

EarlyStopFromHalf(i, last_improvement, num_iterations) ==
    i - last_improvement > num_iterations \div 5 /\ i >= num_iterations \div 2

\* if i - last_improvement > num_iterations // 5 and i > num_iterations // 2
EarlyStop(i, last_improvement, num_iterations) ==
    i - last_improvement > num_iterations \div 5 /\ i > num_iterations \div 2

LoopContinuesOneMore(i, num_iterations) == i + 1 <= num_iterations

\* for i in range(num_iterations)
LoopContinues(i, num_iterations) == i + 1 < num_iterations

\* the end of the body of the loop
EndIteration(s) ==
    IF EarlyStop(s.i, s.last_improvement, s.num_iterations)
        THEN [s EXCEPT !.pc = "finish", !.competed = s.ant, !.exit_reason = "early"]
    ELSE IF LoopContinues(s.i, s.num_iterations)
        THEN [s EXCEPT !.i = @ + 1, !.ant = 0, !.competed = s.ant]
    ELSE [s EXCEPT !.pc = "finish", !.competed = s.ant, !.exit_reason = "exhausted"]

\* ------------------------------------------------------- solver.solve(world)
\* the library's own loop: limit iterations of ant_count ants, keeping the
\* shortest ant
SolverAnt(s, o) ==
    [s EXCEPT !.solution = IF @ = NoSolution \/ o.distance < @.distance THEN o ELSE @,
              !.ant = @ + 1,
              !.seen_min = Min2(@, o.distance),
              !.last_distance = o.distance]

\* best_tour_indices = solution.tour once the library's loop is over
SolverEndIteration(s) ==
    IF LoopContinues(s.i, s.num_iterations)
        THEN [s EXCEPT !.i = @ + 1, !.ant = 0, !.competed = s.ant]
    ELSE [s EXCEPT !.pc = "finish", !.competed = s.ant, !.exit_reason = "exhausted",
                   !.best_tour_indices = s.solution.tour]

\* ------------------------------------------------------------------ result
CloseTourOmitted(t) == t

\* if best_tour_indices[0] != best_tour_indices[-1]: append the first index
CloseTour(t) == IF t[1] # t[Len(t)] THEN Append(t, t[1]) ELSE t

\* total_distance += distance_callback(best_tour_indices[i], best_tour_indices[i+1])
RECURSIVE SumDistances(_, _, _, _)
SumDistances(g, memo, t, total) ==
    IF Len(t) <= 1 THEN [total |-> total, memo |-> memo]
    ELSE LET r == distance_callback(g, memo, t[1], t[2])
         IN SumDistances(g, r.memo, Tail(t), Add(total, r.ret))

\* from the end of the loop to the return
Finish(s) ==
    IF s.best_tour_indices = <<>>
        THEN [s EXCEPT !.pc = "done", !.returned = "None"]
        ELSE LET closed == CloseTour(s.best_tour_indices)
                 sum == SumDistances(s.graph, s.memoized_distances, closed, 0)
             IN [s EXCEPT !.pc = "done", !.returned = "route",
                          !.best_tour_indices = closed,
                          !.optimized_route_coords =
                              [k \in 1 .. Len(closed) |-> int_to_node(closed[k])],
                          !.total_distance = sum.total,
                          !.memoized_distances = sum.memo]

\* except Exception: an error raised inside the try block ends the call
Raised(s) == [s EXCEPT !.pc = "done", !.returned = "None", !.exit_reason = "error"]

\* ----------------------------------------------------------- specification
Init == run \in StartStates

DoSetup ==
    /\ run.pc = "start"
    /\ \E r \in Nodes(run.graph) \cup {0}, colony_ants \in 1 .. MaxAnts :
          run' = Setup(run, r, colony_ants)

DoAntCompetes ==
    /\ run.pc = "loop" /\ run.ant < run.colony_size
    /\ \E o \in OutcomesOf[run.graph] : run' = AntCompetes(run, o)

DoEndIteration ==
    /\ run.pc = "loop" /\ run.ant = run.colony_size
    /\ run' = EndIteration(run)

DoSolverAnt ==
    /\ run.pc = "solve" /\ run.ant < run.colony_size
    /\ \E o \in OutcomesOf[run.graph] : run' = SolverAnt(run, o)

DoSolverEndIteration ==
    /\ run.pc = "solve" /\ run.ant = run.colony_size
    /\ run' = SolverEndIteration(run)

DoFinish ==
    /\ run.pc = "finish"
    /\ run' = Finish(run)

DoRaised ==
    /\ run.pc \in {"loop", "solve"}
    /\ run' = Raised(run)

Next ==
    \/ DoSetup
    \/ DoAntCompetes
    \/ DoEndIteration
    \/ DoSolverAnt
    \/ DoSolverEndIteration
    \/ DoFinish

Spec == Init /\ [][Next]_vars

\* the same calls, in which a call of the library or a write to the terminal
\* may raise
SpecRaising == Init /\ [][Next \/ DoRaised]_vars

\* ------------------------------------------------- the oracle on its own
\* The distance oracle of one solve call, asked any sequence of queries: run
\* is here the record of the graph, the dictionary memoized_distances, the
\* latest query (start_int, end_int) with the value ret it returned, the
\* number of queries, and per unordered pair of indices the values returned
\* so far (answers) and the number of shortest-path computations (computed).
MaxQueries == 4

OracleGraphs == {g \in Graphs : ~TooSmall(g)}

UnorderedPairs(g) == {{a, b} : a, b \in Nodes(g)}

OracleStart(g) ==
    [pc |-> "oracle", graph |-> g, memoized_distances |-> EmptyMemo,
     queries |-> 0, start_int |-> -1, end_int |-> -1, ret |-> -1,
     answers |-> [p \in UnorderedPairs(g) |-> {}],
     computed |-> [p \in UnorderedPairs(g) |-> 0]]

\* one call distance_callback(a, b)
Query(s, a, b) ==
    LET r == distance_callback(s.graph, s.memoized_distances, a, b)
    IN [s EXCEPT !.memoized_distances = r.memo,
                 !.queries = @ + 1,
                 !.start_int = a, !.end_int = b, !.ret = r.ret,
                 !.answers[{a, b}] = @ \cup {r.ret},
                 !.computed[{a, b}] = IF r.computed THEN @ + 1 ELSE @]

OracleInit == run \in {OracleStart(g) : g \in OracleGraphs}

DoQuery ==
    /\ run.pc = "oracle" /\ run.queries < MaxQueries
    /\ \E a, b \in Nodes(run.graph) : run' = Query(run, a, b)

OracleNext == DoQuery

OracleSpec == OracleInit /\ [][OracleNext]_vars

\* ------------------------------------------------------ the graph builder
\* create_road_network_graph (src/src/graph_utils.py).  A coordinate is a
\* pair <<latitude, longitude>>, a segment a sequence of coordinates.  A
\* networkx.MultiGraph is [nodes |-> its nodes in the order they were added,
\* edges |-> its edges <<u, v, weight>> in the order they were added]; two
\* edges with the same end points are parallel edges.
MaxSegments == 2
MaxSegmentLen == 3

Points == {<<50, 19>>, <<50, 20>>, <<51, 19>>, <<51, 20>>}

Abs(x) == IF x < 0 THEN 0 - x ELSE x

\* the greatest r with r * r <= x
Isqrt(x) == CHOOSE r \in 0 .. x : r * r <= x /\ (r + 1) * (r + 1) > x

\* geodesic(u, v).meters of geopy, here in kilometres on a plane: a degree of
\* latitude is 111 km, a degree of longitude at these latitudes 72 km
geodesic(u, v) ==
    LET north == 111 * Abs(u[1] - v[1])
        east == 72 * Abs(u[2] - v[2])
    IN Isqrt(north * north + east * east)

\* graph is None
None == [none |-> TRUE]

\* nx.MultiGraph()
MultiGraph == [nodes |-> <<>>, edges |-> <<>>]

number_of_nodes(graph) == Len(graph.nodes)

number_of_edges(graph) == Len(graph.edges)

NodeSet(graph) == {graph.nodes[k] : k \in 1 .. Len(graph.nodes)}

\* a node that is not yet in the graph is added at the end
add_node(graph, u) ==
    IF u \in NodeSet(graph) THEN graph ELSE [graph EXCEPT !.nodes = Append(@, u)]

add_edge_simple(graph, u, v, weight) ==
    LET Other(e) == {e[1], e[2]} # {u, v}
    IN [add_node(add_node(graph, u), v)
            EXCEPT !.edges = Append(SelectSeq(@, Other), <<u, v, weight>>)]

\* graph.add_edge(u, v, weight=weight) of a MultiGraph: the end points are
\* added if they are new, and the edge is added beside the edges there are
add_edge(graph, u, v, weight) ==
    [add_node(add_node(graph, u), v) EXCEPT !.edges = Append(@, <<u, v, weight>>)]

add_edge_with_weight_unchecked(graph, u_coord, v_coord) ==
    add_edge(graph, u_coord, v_coord, geodesic(u_coord, v_coord))

\* add_edge_with_weight(u_coord, v_coord): identical coordinates are skipped
add_edge_with_weight(graph, u_coord, v_coord) ==
    IF u_coord = v_coord THEN graph
    ELSE add_edge(graph, u_coord, v_coord, geodesic(u_coord, v_coord))

\* for i in range(len(segment_points) - 1): the pairs from index i on (the
\* model counts from 1)
RECURSIVE AddPairs(_, _, _)
AddPairs(graph, segment_points, i) ==
    IF i > Len(segment_points) - 1 THEN graph
    ELSE AddPairs(add_edge_with_weight(graph, segment_points[i], segment_points[i + 1]),
                  segment_points, i + 1)

\* for segment_points in segments: a segment of fewer than 2 points is skipped
RECURSIVE AddSegments(_, _)
AddSegments(graph, segments) ==
    IF segments = <<>> THEN graph
    ELSE LET segment_points == Head(segments)
         IN IF Len(segment_points) < 2
                THEN AddSegments(graph, Tail(segments))
                ELSE AddSegments(AddPairs(graph, segment_points, 1), Tail(segments))

NoEdges(graph) == number_of_nodes(graph) = 0 \/ number_of_edges(graph) = 0

ReturnedGraphUnchecked(graph) == graph

\* if graph.number_of_nodes() == 0 or graph.number_of_edges() == 0: return None
ReturnedGraph(graph) == IF NoEdges(graph) THEN None ELSE graph

\* create_road_network_graph(segments): built is the graph as the loop over
\* the segments leaves it, ret the value returned
create_road_network_graph(segments) ==
    IF segments = <<>>
        THEN [built |-> MultiGraph, ret |-> None]
        ELSE LET graph == AddSegments(MultiGraph, segments)
             IN [built |-> graph, ret |-> ReturnedGraph(graph)]

\* --------------------------------------------------- the graph simplifier
\* simplify_graph (src/src/graph_utils.py).  Its result is the value it
\* returns, or raised = TRUE when an exception leaves it.
MaxNodes == 4

\* the number of edge ends at the node (a self-loop has two)
degree(graph, node) ==
    Cardinality({k \in 1 .. Len(graph.edges) : graph.edges[k][1] = node})
    + Cardinality({k \in 1 .. Len(graph.edges) : graph.edges[k][2] = node})

\* simplified.neighbors(node): the nodes that share an edge with the node
neighbors(graph, node) ==
    {graph.edges[k][2] : k \in {k \in 1 .. Len(graph.edges) : graph.edges[k][1] = node}}
    \cup {graph.edges[k][1] : k \in {k \in 1 .. Len(graph.edges) : graph.edges[k][2] = node}}

copy_simple(graph) ==
    LET First(k) == \A j \in 1 .. (k - 1) :
                       {graph.edges[j][1], graph.edges[j][2]}
                           # {graph.edges[k][1], graph.edges[k][2]}
        kept == {k \in 1 .. Len(graph.edges) : First(k)}
        Rank(k) == Cardinality({j \in kept : j <= k})
    IN [graph EXCEPT !.edges =
            [r \in 1 .. Cardinality(kept) |->
                graph.edges[CHOOSE k \in kept : Rank(k) = r]]]

\* graph.copy(): a graph of its own with the same nodes and edges
copy(graph) == graph

\* simplified.remove_node(node): the node goes, and every edge at it
remove_node(graph, node) ==
    LET OtherNode(u) == u # node
        Apart(e) == e[1] # node /\ e[2] # node
    IN [nodes |-> SelectSeq(graph.nodes, OtherNode), edges |-> SelectSeq(graph.edges, Apart)]

\* [node for node, degree in simplified.degree() if degree == 2]
passthrough_nodes(graph) ==
    LET Two(node) == degree(graph, node) = 2
    IN SelectSeq(graph.nodes, Two)

\* [node for node, degree in simplified.degree() if degree >= junction_degree_threshold]
junction_nodes(graph, junction_degree_threshold) ==
    LET Junction(node) == degree(graph, node) >= junction_degree_threshold
    IN SelectSeq(graph.nodes, Junction)

LoopNodesSparingJunctions(graph, junction_degree_threshold) ==
    LET Spared(node) == degree(graph, node) = 2
                        /\ degree(graph, node) < junction_degree_threshold
    IN SelectSeq(graph.nodes, Spared)

\* for i, node in enumerate(passthrough_nodes): the loop goes over every
\* pass-through node; junction_nodes is not consulted
LoopNodes(graph, junction_degree_threshold) == passthrough_nodes(graph)

\* the neighbours of the node in the order of their first edge with it
NeighborList(graph, node) ==
    LET At(e) == e[1] = node \/ e[2] = node
        at == SelectSeq(graph.edges, At)
        Far(k) == IF at[k][1] = node THEN at[k][2] ELSE at[k][1]
        first == {k \in 1 .. Len(at) : \A j \in 1 .. (k - 1) : Far(j) # Far(k)}
        Rank(k) == Cardinality({j \in first : j <= k})
    IN [r \in 1 .. Cardinality(first) |-> Far(CHOOSE k \in first : Rank(k) = r)]

\* the least weight of the edges between two nodes
MinWeight(graph, u, v) ==
    LET ws == {graph.edges[k][3] :
                  k \in {k \in 1 .. Len(graph.edges) :
                            {graph.edges[k][1], graph.edges[k][2]} = {u, v}}}
    IN CHOOSE w \in ws : \A x \in ws : w <= x

\* lines 125-133 as they are meant: the node is replaced by one edge between
\* its two neighbours, weighted by the sum of the two least weights
Contract(graph, node) ==
    LET nb == NeighborList(graph, node)
        combined_weight == MinWeight(graph, node, nb[1]) + MinWeight(graph, node, nb[2])
    IN remove_node([graph EXCEPT !.edges = Append(@, <<nb[1], nb[2], combined_weight>>)],
                   node)

RECURSIVE ContractLoopContracting(_, _, _)
ContractLoopContracting(simplified, nodes, max_nodes) ==
    IF nodes = <<>> THEN [ret |-> simplified, raised |-> FALSE]
    ELSE IF number_of_nodes(simplified) <= max_nodes
        THEN [ret |-> simplified, raised |-> FALSE]
    ELSE IF Head(nodes) \notin NodeSet(simplified)
        THEN ContractLoopContracting(simplified, Tail(nodes), max_nodes)
    ELSE IF Cardinality(neighbors(simplified, Head(nodes))) # 2
        THEN ContractLoopContracting(simplified, Tail(nodes), max_nodes)
    ELSE ContractLoopContracting(Contract(simplified, Head(nodes)), Tail(nodes), max_nodes)

\* the loop over passthrough_nodes (lines 111-138).  At line 127
\* simplified.edges(node, neighbors[0], data=True) passes neighbors[0] as
\* the second positional parameter of edges(nbunch, data, ...), which is
\* data, and data=True again by keyword: Python raises TypeError (got
\* multiple values for argument 'data') before any edge is replaced.
RECURSIVE ContractLoop(_, _, _)
ContractLoop(simplified, nodes, max_nodes) ==
    IF nodes = <<>> THEN [ret |-> simplified, raised |-> FALSE]
    ELSE IF number_of_nodes(simplified) <= max_nodes
        THEN [ret |-> simplified, raised |-> FALSE]
    ELSE IF Head(nodes) \notin NodeSet(simplified)
        THEN ContractLoop(simplified, Tail(nodes), max_nodes)
    ELSE IF Cardinality(neighbors(simplified, Head(nodes))) # 2
        THEN ContractLoop(simplified, Tail(nodes), max_nodes)
    ELSE [ret |-> simplified, raised |-> TRUE]

InGraphOrder(graph, nodes) == nodes

\* sorted(simplified.degree(), key=lambda x: x[1]): by degree, nodes of one
\* degree in the order of the graph (the sort is stable)
RECURSIVE SortByDegree(_, _)
SortByDegree(graph, nodes) ==
    IF nodes = <<>> THEN <<>>
    ELSE LET least == CHOOSE k \in 1 .. Len(nodes) :
                         /\ \A j \in 1 .. Len(nodes) :
                                degree(graph, nodes[k]) <= degree(graph, nodes[j])
                         /\ \A j \in 1 .. (k - 1) :
                                degree(graph, nodes[j]) > degree(graph, nodes[k])
             Others(u) == u # nodes[least]
         IN <<nodes[least]>> \o SortByDegree(graph, SelectSeq(nodes, Others))

\* for i, (node, _) in enumerate(nodes_by_importance): the first
\* nodes_to_remove nodes are removed
RECURSIVE RemoveFirst(_, _, _)
RemoveFirst(simplified, nodes_by_importance, nodes_to_remove) ==
    IF nodes_to_remove <= 0 \/ nodes_by_importance = <<>> THEN simplified
    ELSE RemoveFirst(remove_node(simplified, Head(nodes_by_importance)),
                     Tail(nodes_by_importance), nodes_to_remove - 1)

PruneKeepingOneMore(simplified, max_nodes) ==
    IF number_of_nodes(simplified) > max_nodes
        THEN RemoveFirst(simplified, SortByDegree(simplified, simplified.nodes),
                         number_of_nodes(simplified) - max_nodes - 1)
        ELSE simplified

\* step 4: if simplified.number_of_nodes() > max_nodes
Prune(simplified, max_nodes) ==
    IF number_of_nodes(simplified) > max_nodes
        THEN RemoveFirst(simplified, SortByDegree(simplified, simplified.nodes),
                         number_of_nodes(simplified) - max_nodes)
        ELSE simplified

\* simplified.remove_nodes_from(list(nx.isolates(simplified)))
RemoveIsolated(simplified) ==
    LET Joined(u) == degree(simplified, u) # 0
    IN [simplified EXCEPT !.nodes = SelectSeq(@, Joined)]

\* if graph.number_of_nodes() <= max_nodes
UnderBudget(graph, max_nodes) == number_of_nodes(graph) <= max_nodes

OnTheInput(graph) == FALSE

\* simplified = graph.copy(): the removals are made on a graph of its own,
\* not on the graph that was passed
OnACopy(graph) == TRUE

\* one call simplify_graph(graph, junction_degree_threshold, max_nodes): the
\* branch taken, the working graph after the loop over the pass-through
\* nodes (contracted) and after step 4 (pruned), the value returned (ret) or
\* that an exception left the call (raised), and the graph that was passed
\* as it is after the call (graph)
Simplification(graph, junction_degree_threshold, max_nodes) ==
    IF graph = None
        THEN [branch |-> "none", contracted |-> None, pruned |-> None,
              ret |-> None, raised |-> FALSE, graph |-> None]
    ELSE IF UnderBudget(graph, max_nodes)
        THEN [branch |-> "copy", contracted |-> None, pruned |-> None,
              ret |-> copy(graph), raised |-> FALSE, graph |-> graph]
    ELSE LET simplified == copy(graph)
             loop == ContractLoop(simplified, LoopNodes(simplified, junction_degree_threshold),
                                  max_nodes)
             pruned == Prune(loop.ret, max_nodes)
             cleaned == RemoveIsolated(pruned)
         IN IF loop.raised
                THEN [branch |-> "raised", contracted |-> loop.ret, pruned |-> None,
                      ret |-> None, raised |-> TRUE,
                      graph |-> IF OnACopy(graph) THEN graph ELSE loop.ret]
                ELSE [branch |-> "simplified", contracted |-> loop.ret, pruned |-> pruned,
                      ret |-> cleaned, raised |-> FALSE,
                      graph |-> IF OnACopy(graph) THEN graph ELSE cleaned]

\* simplify_graph(graph, junction_degree_threshold, max_nodes): what the call
\* returns, or that it raised
simplify_graph(graph, junction_degree_threshold, max_nodes) ==
    LET call == Simplification(graph, junction_degree_threshold, max_nodes)
    IN [ret |-> call.ret, raised |-> call.raised]

\* ------------------------------------------- building, then simplifying
\* run is here the record of one use of graph_utils: the segments, the graph
\* the loop of create_road_network_graph built and the graph it returned,
\* then the arguments of simplify_graph (input is the graph passed), what it
\* returned (simplified) or that it raised, and the number of calls made.
SeqsUpTo(S, n) == UNION {[1 .. k -> S] : k \in 0 .. n}

SegmentLists == SeqsUpTo(SeqsUpTo(Points, MaxSegmentLen), MaxSegments)

Thresholds == {2, 3}

GraphStart(segments) ==
    [pc |-> "segments", segments |-> segments, built |-> MultiGraph, graph |-> None,
     input |-> None, junction_degree_threshold |-> 0, max_nodes |-> 0,
     simplified |-> None, raised |-> FALSE, calls |-> 0]

Create(s) ==
    LET created == create_road_network_graph(s.segments)
    IN [s EXCEPT !.pc = "built", !.built = created.built, !.graph = created.ret]

Simplify(s, graph, junction_degree_threshold, max_nodes) ==
    LET result == simplify_graph(graph, junction_degree_threshold, max_nodes)
    IN [s EXCEPT !.pc = "simplified", !.input = graph,
                 !.junction_degree_threshold = junction_degree_threshold,
                 !.max_nodes = max_nodes,
                 !.simplified = result.ret, !.raised = result.raised,
                 !.calls = @ + 1]

GraphInit == run \in {GraphStart(segments) : segments \in SegmentLists}

DoCreate ==
    /\ run.pc = "segments"
    /\ run' = Create(run)

\* simplify_graph is called on the graph that was built
DoSimplify ==
    /\ run.pc = "built"
    /\ \E junction_degree_threshold \in Thresholds, max_nodes \in 0 .. MaxNodes :
          run' = Simplify(run, run.graph, junction_degree_threshold, max_nodes)

\* simplify_graph is called on what it has returned, with the same arguments
DoSimplifyAgain ==
    /\ run.pc = "simplified" /\ run.calls = 1 /\ ~run.raised
    /\ run' = Simplify(run, run.simplified, run.junction_degree_threshold, run.max_nodes)

GraphNext ==
    \/ DoCreate
    \/ DoSimplify
    \/ DoSimplifyAgain

GraphSpec == GraphInit /\ [][GraphNext]_vars

\* ---------------------------------------------- simplifying a given graph
\* simplify_graph called on any graph: the nodes of the graph are the first
\* nodes of GivenNodes, its edges up to MaxEdges edges between them, weighted
\* 1 or 2; a node may be without an edge.  run is here the record of the
\* call: its arguments and its Simplification.
MaxEdges == 3

GivenNodes == << <<50, 19>>, <<50, 20>>, <<51, 19>>, <<51, 20>> >>

Weights == {1, 2}

\* the edges there can be between the first n nodes
EdgeOptions(n) ==
    LET Ordered == {p \in (1 .. n) \X (1 .. n) : p[1] < p[2]}
    IN {<<GivenNodes[p[1]], GivenNodes[p[2]], w>> : p \in Ordered, w \in Weights}

EdgeOrder(e) == (e[1][1] * 100 + e[1][2]) * 100000 + (e[2][1] * 100 + e[2][2]) * 10 + e[3]

\* one sequence of edges for every multiset of edges
EdgeLists(n) ==
    {edges \in SeqsUpTo(EdgeOptions(n), MaxEdges) :
        \A k \in 1 .. (Len(edges) - 1) : EdgeOrder(edges[k]) <= EdgeOrder(edges[k + 1])}

GivenGraphs ==
    UNION {{[nodes |-> SubSeq(GivenNodes, 1, n), edges |-> edges] : edges \in EdgeLists(n)} :
              n \in 0 .. Len(GivenNodes)}

SimplifyStart(graph) ==
    [pc |-> "given", graph |-> graph, junction_degree_threshold |-> 0, max_nodes |-> 0,
     call |-> Simplification(None, 0, 0)]

SimplifyGiven(s, junction_degree_threshold, max_nodes) ==
    [s EXCEPT !.pc = "simplified",
              !.junction_degree_threshold = junction_degree_threshold,
              !.max_nodes = max_nodes,
              !.call = Simplification(s.graph, junction_degree_threshold, max_nodes)]

SimplifyInit == run \in {SimplifyStart(graph) : graph \in GivenGraphs}

DoSimplifyGiven ==
    /\ run.pc = "given"
    /\ \E junction_degree_threshold \in Thresholds, max_nodes \in -1 .. MaxNodes :
          run' = SimplifyGiven(run, junction_degree_threshold, max_nodes)

SimplifyNext == DoSimplifyGiven

SimplifySpec == SimplifyInit /\ [][SimplifyNext]_vars

\* ------------------------------------------------------------ the pipeline
\* run() of src/src/main.py.  run is here the record of one call: the
\* argument max_nodes, the local variables file_extension, road_segments,
\* graph, closest_node and start_node_index (-1 stands for None), whether
\* simplify_graph and solve_route_with_aco have been called and the output
\* written, the failure that was reported with "Error:", and the exception
\* that left run(), if any.  What the parsers read from the file, the start
\* coordinates and the outcome of the solver are inputs of the steps.
Extensions == {".gpx", ".geojson", ".txt"}

StartPoints == {<<50, 19>>, <<51, 21>>}

\* what parse_gpx_file and parse_geojson_file return: the segments that have
\* a point, in the order of the file; <<>> stands for None, returned for a
\* file that cannot be read or has no such segment
ParserResults == {parsed \in SegmentLists : \A k \in 1 .. Len(parsed) : parsed[k] # <<>>}

PipelineStart(max_nodes) ==
    [pc |-> "parse", max_nodes |-> max_nodes, file_extension |-> "",
     road_segments |-> <<>>, graph |-> None,
     start_point |-> None, closest_node |-> None, start_node_index |-> -1,
     simplify_called |-> FALSE, solve_called |-> FALSE, output_written |-> FALSE,
     reported |-> "none", raised |-> "none"]

\* lines 25-42: parsed is what the parser of the format returns
Parse(s, file_extension, parsed) ==
    IF file_extension \notin {".gpx", ".geojson"}
        THEN [s EXCEPT !.pc = "done", !.file_extension = file_extension,
                       !.reported = "Unsupported file format"]
    ELSE IF parsed = <<>>
        THEN [s EXCEPT !.pc = "done", !.file_extension = file_extension,
                       !.reported = "No road segments found"]
    ELSE [s EXCEPT !.pc = "build", !.file_extension = file_extension,
                   !.road_segments = parsed]

\* lines 46-47: the graph is built, and graph.number_of_nodes() is printed;
\* None has no number_of_nodes
Build(s) ==
    LET graph == create_road_network_graph(s.road_segments).ret
    IN IF graph = None
           THEN [s EXCEPT !.pc = "done", !.graph = None, !.raised = "AttributeError"]
           ELSE [s EXCEPT !.pc = "simplify", !.graph = graph]

\* lines 50-53: simplify_graph(graph, max_nodes=max_nodes), with the default
\* junction_degree_threshold of 3
SimplifyIfLarge(s) ==
    IF number_of_nodes(s.graph) > s.max_nodes
        THEN LET result == simplify_graph(s.graph, 3, s.max_nodes)
             IN IF result.raised
                    THEN [s EXCEPT !.pc = "done", !.simplify_called = TRUE,
                                   !.raised = "TypeError"]
                    ELSE [s EXCEPT !.pc = "start", !.simplify_called = TRUE,
                                   !.graph = result.ret]
        ELSE [s EXCEPT !.pc = "start"]

\* lines 65-72: the first node at the least distance from start_point
closest_node(graph, start_point) ==
    IF number_of_nodes(graph) = 0 THEN None
    ELSE graph.nodes[CHOOSE k \in 1 .. Len(graph.nodes) :
            /\ \A j \in 1 .. Len(graph.nodes) :
                   geodesic(start_point, graph.nodes[k]) <= geodesic(start_point, graph.nodes[j])
            /\ \A j \in 1 .. (k - 1) :
                   geodesic(start_point, graph.nodes[j]) > geodesic(start_point, graph.nodes[k])]

\* the order of coordinate tuples
TupleLess(u, v) == u[1] < v[1] \/ (u[1] = v[1] /\ u[2] < v[2])

\* sorted(list(graph.nodes())).index(node)
SortedIndex(graph, node) == Cardinality({u \in NodeSet(graph) : TupleLess(u, node)})

\* lines 56-81: given is that start_lat and start_lon are not None
FindStart(s, given, start_point) ==
    IF ~given THEN [s EXCEPT !.pc = "solve"]
    ELSE LET closest == closest_node(s.graph, start_point)
         IN [s EXCEPT !.pc = "solve", !.start_point = start_point,
                      !.closest_node = closest,
                      !.start_node_index =
                          IF closest = None THEN -1 ELSE SortedIndex(s.graph, closest)]

\* lines 85-96: route is whether solve_route_with_aco returns a route; it
\* returns None for a graph of fewer than 2 nodes
RunSolver(s, route) ==
    IF route /\ number_of_nodes(s.graph) >= 2
        THEN [s EXCEPT !.pc = "output", !.solve_called = TRUE]
        ELSE [s EXCEPT !.pc = "done", !.solve_called = TRUE,
                       !.reported = "ACO solver failed to find a route"]

\* lines 98-123
WriteOutput(s) == [s EXCEPT !.pc = "done", !.output_written = TRUE]

PipelineInit == run \in {PipelineStart(max_nodes) : max_nodes \in 0 .. MaxNodes}

DoParse ==
    /\ run.pc = "parse"
    /\ \E file_extension \in Extensions, parsed \in ParserResults :
          run' = Parse(run, file_extension, parsed)

DoBuild ==
    /\ run.pc = "build"
    /\ run' = Build(run)

DoSimplifyIfLarge ==
    /\ run.pc = "simplify"
    /\ run' = SimplifyIfLarge(run)

DoFindStart ==
    /\ run.pc = "start"
    /\ \/ run' = FindStart(run, FALSE, None)
       \/ \E start_point \in StartPoints : run' = FindStart(run, TRUE, start_point)

DoRunSolver ==
    /\ run.pc = "solve"
    /\ \E route \in BOOLEAN : run' = RunSolver(run, route)

DoWriteOutput ==
    /\ run.pc = "output"
    /\ run' = WriteOutput(run)

PipelineNext ==
    \/ DoParse
    \/ DoBuild
    \/ DoSimplifyIfLarge
    \/ DoFindStart
    \/ DoRunSolver
    \/ DoWriteOutput

PipelineSpec == PipelineInit /\ [][PipelineNext]_vars

\* ------------------------------------------------------------------ claims
Route == run.optimized_route_coords

ConnectedGraphs == {g \in Graphs : g.n >= 2 /\ Connected(g)}

DisconnectedGraphs == {g \in Graphs : g.n >= 2 /\ ~Connected(g)}

StartInRange == run.start_given /\ 0 <= run.start_node_index
                /\ run.start_node_index < run.graph.n

C2_RouteStartsAtStartIndex ==
    (run.pc = "done" /\ run.returned = "route" /\ StartInRange
        /\ run.graph \in ConnectedGraphs) =>
        /\ Route[1] = int_to_node(run.start_node_index)
        /\ Route[Len(Route)] = int_to_node(run.start_node_index)

\* C3: until the closing node is appended, best_tour_indices is unset or a
\* permutation of all N node indices.
C3_BestTourIsComplete ==
    run.pc \in {"loop", "solve", "finish"} =>
        run.best_tour_indices = <<>> \/ run.best_tour_indices \in Perms(run.graph.n)

\* C4: if no ant of any executed iteration reported a finite distance, the
\* call returns None, with and without show_progress.
C4_NoFiniteTourIsFailure ==
    (run.pc = "done" /\ run.competed >= 1 /\ run.seen_min = Inf) => run.returned = "None"

\* C5: on a graph of two or more connected components the call returns None,
\* and no returned route has two consecutive nodes without a connecting path.
C5_DisconnectedGraphIsFailure ==
    /\ (run.pc = "done" /\ run.graph \in DisconnectedGraphs) => run.returned = "None"
    /\ (run.pc = "done" /\ run.returned = "route") =>
          \A k \in 1 .. (Len(run.best_tour_indices) - 1) :
              shortest_path_length(run.graph, run.best_tour_indices[k],
                                   run.best_tour_indices[k + 1]) # Inf

\* the end of an iteration after which iterations remain to be run
AtEndOfIteration ==
    /\ run.pc = "loop" /\ run.ant = run.colony_size
    /\ run.i + 1 < run.num_iterations

StopsEarly == run'.pc = "finish"

\* C6 as stated: at the end of an iteration the loop stops early exactly when
\* more than num_iterations/5 iterations have passed since the last improvement
\* and at least half of num_iterations iterations have elapsed.
C6_StopsOnceHalfElapsed ==
    [][AtEndOfIteration =>
          (StopsEarly <=> /\ 5 * (run.i - run.last_improvement) > run.num_iterations
                          /\ 2 * (run.i + 1) >= run.num_iterations)]_vars

\* C6 as amended: at the end of the iteration of index i (i+1 iterations have
\* elapsed) the loop of the show_progress path stops early exactly when
\* i - last_improvement is more than num_iterations/5 and i is more than
\* num_iterations/2.
C6_StopsOncePastHalf ==
    [][AtEndOfIteration =>
          (StopsEarly <=> /\ 5 * (run.i - run.last_improvement) > run.num_iterations
                          /\ 2 * run.i > run.num_iterations)]_vars

C6_Witness ==
    /\ run.pc = "finish" /\ run.exit_reason = "early"
    /\ run.i + 1 < run.num_iterations

\* C7 as stated: the loop ends only by exhausting num_iterations or by the
\* early-stopping condition.
C7_OnlyTwoExits ==
    (run.pc = "done" /\ run.exit_reason # "rejected") =>
        run.exit_reason \in {"exhausted", "early"}

\* some step of the call can be taken: the guard of one of the actions holds
CanStep ==
    \/ run.pc \in {"start", "finish"}
    \/ /\ run.pc \in {"loop", "solve"}
       /\ \/ run.ant = run.colony_size
          \/ run.ant < run.colony_size /\ OutcomesOf[run.graph] # {}

C7_Exits ==
    /\ run.i < run.num_iterations
    /\ run.pc = "done" => run.exit_reason \in {"rejected", "exhausted", "early", "error"}
    /\ run.exit_reason = "exhausted" => run.i = run.num_iterations - 1
    /\ run.exit_reason = "early" =>
          /\ run.show_progress
          /\ 5 * (run.i - run.last_improvement) > run.num_iterations
          /\ 2 * run.i > run.num_iterations
    /\ run.exit_reason = "error" => run.returned = "None"
    /\ run.pc # "done" => CanStep

\* how far a call has come: its position, then the iteration, then the ant
Progress(s) ==
    (CASE s.pc = "start" -> 0
       [] s.pc \in {"loop", "solve"} -> 1
       [] s.pc = "finish" -> 2
       [] s.pc = "done" -> 3) * 10000 + s.i * 100 + s.ant

\* C7 as amended: every call terminates (each step takes it further and it
\* is never stuck before it has returned); the loop runs at most
\* num_iterations iterations and ends by exhausting them, by the
\* early-stopping condition, or by an error raised inside an iteration, which
\* is caught and makes the call return None.
C7_TerminatesByThreeExits == []C7_Exits /\ [][Progress(run') > Progress(run)]_vars

C7_Witness ==
    /\ run.pc = "done" /\ run.exit_reason = "error"
    /\ run.i >= 1 /\ run.returned = "None"

\* C8: in the iteration loop, best_tour_distance is the least distance any
\* ant has reported so far (infinite if none was finite) and
\* best_tour_indices is the tour of the first ant that reported it, so that
\* later ants that are no better change neither.
C8_ElitistTracking ==
    (run.show_progress /\ run.pc \in {"loop", "finish"}) =>
        /\ run.best_tour_distance = run.seen_min
        /\ run.best_tour_indices = run.min_tour

C8_Witness ==
    /\ run.pc = "loop" /\ run.i >= 1 /\ run.last_improvement = 0
    /\ run.colony_size = 1 /\ run.ant = 1
    /\ run.last_distance > run.best_tour_distance
    /\ run.best_tour_indices # <<>>

\* C9: in every iteration exactly num_ants ants compete, with and without
\* show_progress.
C9_NumAntsCompete == run.competed \in {-1, run.num_ants}

\* the call as it was made
Called == Start(run.graph, run.num_ants, run.num_iterations, run.start_given,
                run.start_node_index, run.show_progress)

\* C11: when the graph is missing, empty or has fewer than 2 nodes, the call
\* returns None at once: its first step is its last, and apart from the
\* return nothing of its state has changed (no start index chosen, no
\* distance stored, no iteration and no ant run).
C11_SmallGraphRejectedAtOnce ==
    (run.pc # "start" /\ (run.graph = NoGraph \/ run.graph.n < 2)) =>
        run = [Called EXCEPT !.pc = "done", !.returned = "None",
                             !.exit_reason = "rejected"]

C11_Witness ==
    /\ run.pc = "done" /\ run.graph = G1 /\ run.start_given
    /\ run.returned = "None" /\ run.effective_start_node_idx = -1

\* a start index was given and lies outside [0, N), on a graph that is solved
StartOutOfRange ==
    /\ ~(run.graph = NoGraph \/ run.graph.n < 2)
    /\ run.start_given
    /\ (run.start_node_index < 0 \/ run.start_node_index >= run.graph.n)

C12_Substituted ==
    /\ (StartOutOfRange /\ run.pc # "start") =>
          /\ run.effective_start_node_idx \in Nodes(run.graph)
          /\ run.invalid_start_reported
          /\ run.exit_reason # "rejected"
          /\ run.pc = "done" => run.exit_reason \in {"exhausted", "early"}
    /\ run.invalid_start_reported => StartOutOfRange

\* the first step of the call is the first step of the same call without a
\* start index, for the same random choice, but for the warning
C12_AsOmitted ==
    (StartOutOfRange /\ run.pc = "start") =>
        \E r \in Nodes(run.graph) :
            LET omitted == [run EXCEPT !.start_given = FALSE]
                step == Setup(omitted, r, run'.colony_size)
            IN /\ step.effective_start_node_idx = r
               /\ run' = [step EXCEPT !.start_given = TRUE,
                                      !.invalid_start_reported = TRUE]

\* C12: for every start_node_index outside [0, N), negative ones included,
\* the call is not aborted: a start index inside [0, N) is drawn at random,
\* the substitution is reported, and the call goes on as the call without a
\* start index does.
C12_InvalidStartIsRandomStart == []C12_Substituted /\ [][C12_AsOmitted]_vars

C12_Witness ==
    /\ run.pc = "done" /\ run.returned = "route"
    /\ run.graph = G3tri /\ run.start_given /\ run.start_node_index = -1
    /\ run.effective_start_node_idx = 2 /\ run.invalid_start_reported

\* what the oracle would answer now
Answer(a, b) == distance_callback(run.graph, run.memoized_distances, a, b)

\* C13: after any sequence of queries of one call, the oracle answers (a, b)
\* as it answers (b, a), asked now in either order or one after the other,
\* every answer given so far for the pair was the same, and (a, a) is
\* answered 0.
C13_OracleSymmetric ==
    \A a, b \in Nodes(run.graph) :
        /\ Answer(a, b).ret = Answer(b, a).ret
        /\ distance_callback(run.graph, Answer(a, b).memo, b, a).ret = Answer(a, b).ret
        /\ Cardinality(run.answers[{a, b}]) <= 1
        /\ Answer(a, a).ret = 0
        /\ run.answers[{a}] \subseteq {0}

C13_Witness ==
    /\ run.graph = G3path /\ run.queries >= 2
    /\ DOMAIN run.memoized_distances = {<<0, 2>>}
    /\ run.start_int = 2 /\ run.end_int = 0 /\ run.ret = 2
    /\ run.answers[{0, 2}] = {2}

\* the nodes joined to a node of the set by a walk of at most k edges
RECURSIVE Reach(_, _, _)
Reach(g, set, k) ==
    IF k = 0 THEN set
    ELSE Reach(g, set \cup {t[2] : t \in {t \in g.e : t[1] \in set}}
                      \cup {t[1] : t \in {t \in g.e : t[2] \in set}}, k - 1)

NoPath(g, a, b) == b \notin Reach(g, {a}, g.n)

\* C14: for two nodes without a connecting path the oracle answers Inf, on
\* the first query and on every later one in either direction (the answer
\* stands for the caught NetworkXNoPath: nothing is raised); it has never
\* answered 0 or another finite value, and the dictionary holds no entry for
\* the pair.
C14_NoPathIsInf ==
    \A a, b \in Nodes(run.graph) :
        NoPath(run.graph, a, b) =>
            /\ Answer(a, b).ret = Inf
            /\ Answer(b, a).ret = Inf
            /\ run.answers[{a, b}] \subseteq {Inf}
            /\ <<a, b>> \notin DOMAIN run.memoized_distances
            /\ <<b, a>> \notin DOMAIN run.memoized_distances

C14_Witness ==
    /\ run.graph = G4two /\ NoPath(G4two, 0, 2)
    /\ run.computed[{0, 2}] = 2
    /\ run.start_int = 2 /\ run.end_int = 0 /\ run.ret = Inf
    /\ run.answers[{0, 2}] = {Inf}
    /\ <<0, 1>> \in DOMAIN run.memoized_distances

\* C15: for every unordered pair of distinct node indices the shortest path
\* is computed at most once in a call: once (a, b) has been asked, every
\* later query of (a, b) or (b, a) is answered from the dictionary.
C15_ComputedAtMostOnce ==
    \A a, b \in Nodes(run.graph) : a # b => run.computed[{a, b}] <= 1

\* the consecutive pairs of non-identical coordinates of the segments:
\* <<k, i>> is the pair at places i and i+1 of the k-th segment
PairsOf(segments) ==
    {q \in UNION {{<<k, i>> : i \in 1 .. (Len(segments[k]) - 1)} : k \in 1 .. Len(segments)} :
        segments[q[1]][q[2]] # segments[q[1]][q[2] + 1]}

Ends(segments, q) == {segments[q[1]][q[2]], segments[q[1]][q[2] + 1]}

EdgesBetween(graph, u, v) ==
    {k \in 1 .. Len(graph.edges) : {graph.edges[k][1], graph.edges[k][2]} = {u, v}}

\* C16: the graph that create_road_network_graph builds has, between any two
\* coordinates, as many edges as there are consecutive pairs of these two
\* (non-identical) coordinates in the segments, each weighted by their
\* geodesic distance, and no other edge; its nodes are the end points of
\* these pairs; a segment of fewer than 2 points adds nothing.
C16_OneEdgePerConsecutivePair ==
    run.pc # "segments" =>
        /\ \A u, v \in Points :
              Cardinality(EdgesBetween(run.built, u, v)) =
                  IF u = v THEN 0
                  ELSE Cardinality({q \in PairsOf(run.segments) :
                                       Ends(run.segments, q) = {u, v}})
        /\ number_of_edges(run.built) = Cardinality(PairsOf(run.segments))
        /\ \A k \in 1 .. Len(run.built.edges) :
              run.built.edges[k][3] = geodesic(run.built.edges[k][1], run.built.edges[k][2])
        /\ NodeSet(run.built) = UNION {Ends(run.segments, q) : q \in PairsOf(run.segments)}
        /\ number_of_nodes(run.built) = Cardinality(NodeSet(run.built))

C16_Witness ==
    /\ run.pc = "built"
    /\ run.segments = <<<< <<50, 19>>, <<51, 20>>, <<50, 19>> >>, << <<50, 20>> >>>>
    /\ number_of_edges(run.built) = 2
    /\ NodeSet(run.built) = {<<50, 19>>, <<51, 20>>}
    /\ run.graph = run.built

\* C17: create_road_network_graph returns None exactly when the list of
\* segments is empty or the graph built from it has no node or no edge, which
\* is when the segments have no consecutive pair of non-identical
\* coordinates; otherwise it returns the graph built, which has an edge.
C17_NoneExactlyWhenNoEdge ==
    run.pc # "segments" =>
        /\ run.graph = None <=>
              (run.segments = <<>> \/ number_of_nodes(run.built) = 0
                  \/ number_of_edges(run.built) = 0)
        /\ run.graph = None <=> PairsOf(run.segments) = {}
        /\ run.graph # None => (run.graph = run.built /\ number_of_edges(run.graph) >= 1)

C17_Witness ==
    /\ run.pc = "built"
    /\ run.segments = <<<< <<50, 19>>, <<50, 19>> >>, << <<50, 20>> >>>>
    /\ run.graph = None

\* C18: in run(), when the parsed segments yield no graph (no segment has
\* two consecutive non-identical coordinates), the pipeline stops with a
\* reported failure: simplify_graph and solve_route_with_aco are not called,
\* no output is written and no exception leaves run().
C18_NoGraphStopsPipeline ==
    (run.pc = "done" /\ run.road_segments # <<>> /\ PairsOf(run.road_segments) = {}) =>
        /\ run.raised = "none"
        /\ run.reported # "none"
        /\ ~run.simplify_called /\ ~run.solve_called /\ ~run.output_written

\* no edge of the graph joins a node to itself or has a negative weight
NoSelfLoopNoNegativeWeight(graph) ==
    \A k \in 1 .. Len(graph.edges) :
        graph.edges[k][1] # graph.edges[k][2] /\ graph.edges[k][3] >= 0

\* C19: no graph returned by create_road_network_graph, and no graph
\* returned by simplify_graph for such a graph, for any max_nodes and
\* threshold, has an edge from a node to itself or an edge of negative weight.
C19_NoSelfLoopNoNegativeWeight ==
    /\ (run.pc # "segments" /\ run.graph # None) => NoSelfLoopNoNegativeWeight(run.graph)
    /\ (run.pc = "simplified" /\ ~run.raised /\ run.simplified # None) =>
          NoSelfLoopNoNegativeWeight(run.simplified)

C19_Witness ==
    /\ run.pc = "simplified" /\ run.calls = 1 /\ ~run.raised /\ run.graph # None
    /\ number_of_nodes(run.input) > run.max_nodes
    /\ number_of_nodes(run.simplified) = 2
    /\ number_of_edges(run.simplified) = 2
    /\ \E k \in 1 .. Len(run.segments) : \E i \in 1 .. (Len(run.segments[k]) - 1) :
          run.segments[k][i] = run.segments[k][i + 1]

\* C20: for a graph of at most max_nodes nodes simplify_graph returns a graph
\* with the same nodes, edges and weights; and simplify_graph applied with
\* the same arguments to what it returned returns a graph with the same
\* numbers of nodes and edges.
C20_UnderBudgetIsCopy ==
    /\ (run.pc = "simplified" /\ run.input # None
            /\ number_of_nodes(run.input) <= run.max_nodes) =>
          (~run.raised /\ run.simplified = run.input)
    /\ (run.pc = "simplified" /\ run.calls = 2 /\ run.input # None) =>
          /\ ~run.raised
          /\ number_of_nodes(run.simplified) = number_of_nodes(run.input)
          /\ number_of_edges(run.simplified) = number_of_edges(run.input)

C20_Witness ==
    /\ run.pc = "simplified" /\ run.calls = 2 /\ run.graph # None
    /\ number_of_nodes(run.graph) > run.max_nodes
    /\ number_of_nodes(run.input) = 2 /\ number_of_edges(run.input) = 2
    /\ run.simplified = run.input

\* one call of simplify_graph on a given graph has been made
Simplified == run.pc = "simplified"

Returned == Simplified /\ ~run.call.raised /\ run.call.ret # None

Isolated(graph) == {u \in NodeSet(graph) : degree(graph, u) = 0}

\* C22: whatever the graph and max_nodes, the graph simplify_graph returns
\* has no node of degree 0, also when the graph passed is within the budget.
C22_NoIsolatedNodeReturned == Returned => Isolated(run.call.ret) = {}

\* C23: for max_nodes >= 0 the nodes of the graph simplify_graph returns are
\* nodes of the graph passed, and there are at most
\* min(number of nodes passed, max_nodes) of them.
C23_SubsetWithinBudget ==
    (Returned /\ run.max_nodes >= 0) =>
        /\ NodeSet(run.call.ret) \subseteq NodeSet(run.graph)
        /\ number_of_nodes(run.call.ret) <= Min2(number_of_nodes(run.graph), run.max_nodes)

C23_Witness ==
    /\ Returned /\ run.call.branch = "simplified"
    /\ run.max_nodes = 2 /\ number_of_nodes(run.graph) = 4
    /\ number_of_nodes(run.call.ret) = 2
    /\ NodeSet(run.call.ret) \subseteq NodeSet(run.graph)

\* the pass-through nodes of the graph that have two distinct neighbours
Contractible(graph) ==
    {u \in NodeSet(graph) : degree(graph, u) = 2 /\ Cardinality(neighbors(graph, u)) = 2}

\* a path of four nodes and three edges
IsPath4(graph) ==
    /\ number_of_nodes(graph) = 4 /\ number_of_edges(graph) = 3
    /\ Cardinality(Contractible(graph)) = 2
    /\ Cardinality({u \in NodeSet(graph) : degree(graph, u) = 1}) = 2

PathEnds(graph) == {u \in NodeSet(graph) : degree(graph, u) = 1}

\* C24: a contraction removes a node with exactly two neighbours and adds one
\* edge between them, weighted by the sum of the least weights of the edges
\* to either neighbour: the call that is over the budget and has such a node
\* does not raise, and a path of four nodes simplified with max_nodes = 2
\* comes back as its two end nodes joined by one edge whose weight is the sum
\* of the three weights.
C24_ContractionAddsSummedEdge ==
    /\ (Simplified /\ number_of_nodes(run.graph) > run.max_nodes
            /\ Contractible(run.graph) # {}) => ~run.call.raised
    /\ (Simplified /\ IsPath4(run.graph) /\ run.max_nodes = 2) =>
          /\ Returned
          /\ NodeSet(run.call.ret) = PathEnds(run.graph)
          /\ number_of_edges(run.call.ret) = 1
          /\ run.call.ret.edges[1][3] =
                run.graph.edges[1][3] + run.graph.edges[2][3] + run.graph.edges[3][3]

\* the elements of a sequence
Range(seq) == {seq[k] : k \in 1 .. Len(seq)}

\* the call went into the loop over the pass-through nodes
Looped == Simplified /\ run.call.branch \in {"simplified", "raised"}

Pruning ==
    /\ Simplified /\ run.call.branch = "simplified"
    /\ number_of_nodes(run.call.contracted) > run.max_nodes

\* the nodes step 4 deleted
Deleted == NodeSet(run.call.contracted) \ NodeSet(run.call.pruned)

\* no deleted node had, when step 4 began, a higher degree than a kept one
LowestDegreesDeleted ==
    \A d \in Deleted : \A k \in NodeSet(run.call.pruned) :
        degree(run.call.contracted, d) <= degree(run.call.contracted, k)

\* C26 as stated: when step 4 runs it deletes exactly
\* (number of nodes - max_nodes) nodes, and no deleted node had a higher
\* degree, at the beginning of step 4, than a node that is kept.
C26_PruneDeletesExcess ==
    Pruning =>
        /\ Cardinality(Deleted) = number_of_nodes(run.call.contracted) - run.max_nodes
        /\ LowestDegreesDeleted

\* C26, amended: when step 4 runs it deletes (number of nodes - max_nodes)
\* nodes, or all the nodes when max_nodes is negative, and no deleted node
\* had a higher degree, at the beginning of step 4, than a node that is kept.
C26_PruneDeletesExcessOrAll ==
    Pruning =>
        /\ Cardinality(Deleted) =
              Min2(number_of_nodes(run.call.contracted),
                   number_of_nodes(run.call.contracted) - run.max_nodes)
        /\ LowestDegreesDeleted

C26_Witness ==
    /\ Pruning /\ run.max_nodes = 2 /\ Cardinality(Deleted) = 2
    /\ \E d \in Deleted : \E k \in NodeSet(run.call.pruned) :
          degree(run.call.contracted, d) < degree(run.call.contracted, k)
    /\ \E d \in Deleted : \E k \in NodeSet(run.call.pruned) :
          degree(run.call.contracted, d) = degree(run.call.contracted, k)

\* the least weight of an edge between two nodes, Inf without an edge
Direct(graph, u, v) ==
    IF u = v THEN 0
    ELSE IF \E k \in 1 .. Len(graph.edges) : {graph.edges[k][1], graph.edges[k][2]} = {u, v}
        THEN MinWeight(graph, u, v)
    ELSE Inf

\* the least weight of a walk of at most hops edges
RECURSIVE Within(_, _, _, _)
Within(graph, u, v, hops) ==
    IF hops = 0 THEN (IF u = v THEN 0 ELSE Inf)
    ELSE LET through == {Add(Within(graph, u, w, hops - 1), Direct(graph, w, v)) :
                            w \in NodeSet(graph)}
         IN CHOOSE d \in through : \A x \in through : d <= x

\* the weighted shortest-path distance in the graph
Distance(graph, u, v) == Within(graph, u, v, number_of_nodes(graph) - 1)

SolverNode(graph, index) == graph.nodes[index + 1]

\* the nodes of the graph at the least distance from the point
Closest(graph, start_point) ==
    {u \in NodeSet(graph) :
        \A v \in NodeSet(graph) : geodesic(start_point, u) <= geodesic(start_point, v)}

\* solve_route_with_aco was called with the index run() found for the start
\* coordinates
StartIndexPassed ==
    run.solve_called /\ run.start_point # None /\ run.closest_node # None

\* C29: when start coordinates are given, the node that the solver's own
\* numbering (position in list(graph.nodes())) gives to the start_node_index
\* it is passed is a node of the graph closest to the coordinates.
C29_StartIndexIsClosestNode ==
    StartIndexPassed =>
        SolverNode(run.graph, run.start_node_index) \in Closest(run.graph, run.start_point)

====
